---- MODULE Spec2Model ----
(***************************************************************************)
(* Model of the workflow orchestration core.                               *)
(*                                                                         *)
(* workflow_engine.py runs on one asyncio event loop: a coroutine runs     *)
(* without interruption from one `await` that suspends to the next, so an  *)
(* action below is one such uninterrupted stretch of a coroutine.          *)
(* Task.cancel() only marks the execution task; CancelledError is raised   *)
(* inside it when the event loop next runs it (and a task cancelled before *)
(* its first run never executes any of its body).                          *)
(*                                                                         *)
(* task_queue.py and agent_registry.py are imported by the engine but are  *)
(* not part of the sources at hand; their operations follow sections 4.1   *)
(* and 4.2 of the specification.  The awaited queue operations suspend, if *)
(* at all, before they take effect (waiting for the queue lock).           *)
(*                                                                         *)
(* complete_n8n_workflow_integration.py is a separate program: its         *)
(* integrator (circuit breaker, retry wrapper, metrics) has its own         *)
(* variables and its own specification, RetrySpec, in which the engine is  *)
(* left as constructed; in the engine's specifications the integrator is   *)
(* left as constructed.                                                    *)
(***************************************************************************)
EXTENDS Integers, Sequences, FiniteSets, TLC

\* ---------------------------------------------------------------- bounds
MaxWorkflows == 1      \* Workflow objects the callers construct
MaxThreshold == 2      \* failure_threshold of a breaker: 1..MaxThreshold
RecoveryTimeout == 2   \* recovery_timeout of a breaker, in ticks of the clock
MaxTime == 5           \* the clock runs from 0 to MaxTime
MaxCalls == 2          \* calls of the retry wrapper in progress at a time
MaxRequests == 5       \* invocations of guarded functions in a run
ApiRateLimit == 2      \* api_rate_limit: the window in ticks, and the count
MaxChecks == 4         \* rate-limit checks made on one key in a run

\* ------------------------------------------------- constants of the program
DefaultFailureThreshold == 5     \* CircuitBreaker.__init__
DefaultRecoveryTimeout == 60     \* CircuitBreaker.__init__
retry_attempts == 3              \* PerformanceConfig.retry_attempts
retry_delay == 1                 \* PerformanceConfig.retry_delay

NONE == "None"

Ids(n) == {"w" \o ToString(i) : i \in 1..n}
Flows == {"n8n-42"}
WorkflowTypes == {"business_analysis", "automation"}

\* ------------------------------------------------------- enumerated types
WorkflowStatus == {"pending", "running", "completed", "failed", "cancelled"}

WorkflowPhase ==
    <<"initialization", "agent_selection", "task_execution",
      "result_processing", "completion">>

TaskStatus == {"pending", "assigned", "running", "completed", "failed", "cancelled"}

TerminalWorkflow == {"completed", "failed", "cancelled"}
TerminalTask == {"completed", "failed", "cancelled"}

EmptyDict == [k \in {} |-> NONE]

VARIABLES
    wf,                 \* the Workflow objects, by id
    workflows,          \* WorkflowEngine.workflows: the ids in the table
    running_workflows,  \* WorkflowEngine.running_workflows: ids with a task entry
    _shutdown,          \* WorkflowEngine._shutdown
    decision_engine,    \* constructor arguments: is a collaborator attached?
    memory_manager,
    n8n_adapter,
    registry,           \* AgentRegistry: registered agent id -> record
    queue,              \* TaskQueue: task id -> record
    next_task,          \* number of task ids the queue has issued
    pc,                 \* where each workflow's execution task is suspended
    must_cancel,        \* Task.cancel() was called on a task not yet resumed
    cancel_pc,          \* the caller suspended inside cancel_workflow, if any
    shutdown_pc,        \* the caller of shutdown(): idle, gather, done
    gather_set,         \* the tasks shutdown() is awaiting
    returned,           \* the API call that returned in the last step, if any
    circuit_breaker,    \* IZAOSWorkflowIntegrator.circuit_breaker
    metrics,            \* IZAOSWorkflowIntegrator.performance_monitor.metrics
    calls,              \* the calls of _execute_with_retry, by slot
    now,                \* time.time()
    rate_limiter,       \* IZAOSWorkflowIntegrator.rate_limiter: key -> timestamps
    rate_log,           \* history: every check made on a key, with its answer
    shutdown_event,     \* the shutdown event the monitor shares with the integrator
    monitoring_active,  \* WorkflowMonitor.monitoring_active
    loops,              \* where each monitoring loop is suspended
    monitor_pc,         \* the caller of start_monitoring: idle, gather, returned
    assessment          \* a workflow handed to _assess_workflow_complexity, and the score

vars == <<wf, workflows, running_workflows, _shutdown, decision_engine,
          memory_manager, n8n_adapter, registry, queue, next_task, pc,
          must_cancel, cancel_pc, shutdown_pc, gather_set, returned,
          circuit_breaker, metrics, calls, now, rate_limiter, rate_log,
          shutdown_event, monitoring_active, loops, monitor_pc, assessment>>

\* The state of the workflow engine, and the state of the integrator.
engine == <<wf, workflows, running_workflows, _shutdown, decision_engine,
            memory_manager, n8n_adapter, registry, queue, next_task, pc,
            must_cancel, cancel_pc, shutdown_pc, gather_set, returned,
            assessment>>

\* The rate limiter of the integrator, and the WorkflowMonitor.
limiter == <<rate_limiter, rate_log>>

monitor == <<shutdown_event, monitoring_active, loops, monitor_pc>>

integration == <<circuit_breaker, metrics, calls, now, limiter, monitor>>

collaborators == <<decision_engine, memory_manager, n8n_adapter, registry>>

WorkflowIds == DOMAIN wf

\* --------------------------------------------------------------- Workflow
\* Workflow.__init__.  phase_log, completed_at_writes and created are history
\* fields: every value assigned to current_phase by the pipeline, the number
\* of assignments to completed_at, and every task id the workflow enqueued.
Workflow(workflow_type) ==
    [workflow_type |-> workflow_type,
     status |-> "pending",
     current_phase |-> "initialization",
     started_at |-> 0,
     completed_at |-> 0,
     assigned_agents |-> <<>>,
     tasks |-> <<>>,
     results |-> EmptyDict,
     error |-> NONE,
     metadata |-> EmptyDict,
     phase_log |-> <<>>,
     completed_at_writes |-> 0,
     created |-> <<>>]

\* The fields of the Workflow object itself (to_dict), without the history.
Fields(w) ==
    [f \in {"workflow_type", "status", "current_phase", "started_at",
            "completed_at", "assigned_agents", "tasks", "results", "error",
            "metadata"} |-> w[f]]

SetPhase(w, phase) ==
    [w EXCEPT !.current_phase = phase, !.phase_log = Append(@, phase)]

\* datetime.now(), as the number of the read among those made for this
\* workflow: a later read returns a later time.
Now(w) == 1 + (IF w.started_at # 0 THEN 1 ELSE 0) + w.completed_at_writes

SetCompletedAt(w) ==
    [w EXCEPT !.completed_at = Now(w), !.completed_at_writes = @ + 1]

DictSet(d, k, v) == [x \in DOMAIN d \cup {k} |-> IF x = k THEN v ELSE d[x]]

DictGet(d, k) == IF k \in DOMAIN d THEN d[k] ELSE NONE

\* ------------------------------------------------------------- TaskQueue
Task(type) ==
    [type |-> type, status |-> "pending", assigned_agent |-> NONE,
     result |-> NONE, error |-> NONE]

TaskId(n) == "t" \o ToString(n)

enqueue_task(q, n, task) == DictSet(q, TaskId(n), task)

assign_agent(q, task_id, agent_id) ==
    IF task_id \in DOMAIN q /\ q[task_id].status = "pending"
    THEN [q EXCEPT ![task_id].status = "assigned",
                   ![task_id].assigned_agent = agent_id]
    ELSE q

start_task(q, task_id) ==
    IF task_id \in DOMAIN q /\ q[task_id].status = "assigned"
    THEN [q EXCEPT ![task_id].status = "running"]
    ELSE q

complete_task(q, task_id, result, error) ==
    IF task_id \in DOMAIN q /\ q[task_id].status = "running"
    THEN IF error = NONE
         THEN [q EXCEPT ![task_id].status = "completed",
                        ![task_id].result = result]
         ELSE [q EXCEPT ![task_id].status = "failed",
                        ![task_id].error = error]
    ELSE q

cancel_task(q, task_id) ==
    IF task_id \in DOMAIN q /\ q[task_id].status \notin TerminalTask
    THEN [q EXCEPT ![task_id].status = "cancelled"]
    ELSE q

\* None for an unknown id.
get_task_status(q, task_id) == DictGet(q, task_id)

Known(q, task_id) == task_id \in DOMAIN q

\* --------------------------------------------------------- AgentRegistry
Agent(status, capabilities) == [status |-> status, capabilities |-> capabilities]

\* The registries the engine is run against: an empty one, and one with two
\* active agents (a1 has two of the capabilities of a business analysis) and
\* an inactive one.
Registries ==
    { EmptyDict,
      [a \in {"a1", "a2", "a3"} |->
          CASE a = "a1" -> Agent("active", {"Portfolio analysis", "Data analysis",
                                            "Workflow automation"})
            [] a = "a2" -> Agent("active", {"Financial analysis", "Web scraping"})
            [] OTHER -> Agent("inactive", {"Data analysis", "Browser automation"})] }

AgentOrder == <<"a1", "a2", "a3">>

list_agents(reg, status) == {a \in DOMAIN reg : reg[a].status = status}

\* The agents found for one capability, in registry order.
find_agents_by_capability(reg, capability) ==
    SelectSeq(AgentOrder,
              LAMBDA a : /\ a \in DOMAIN reg
                         /\ reg[a].status = "active"
                         /\ capability \in reg[a].capabilities)

\* ------------------------------------------------- WorkflowEngine, helpers
_get_required_capabilities(workflow_type) ==
    CASE workflow_type = "site_recreation" ->
            <<"Project management", "Interface design", "Code generation",
              "Quality assurance">>
      [] workflow_type = "business_analysis" ->
            <<"Portfolio analysis", "Financial analysis", "Data analysis">>
      [] workflow_type = "content_creation" ->
            <<"Content strategy", "Copywriting", "SEO optimization">>
      [] workflow_type = "research_processing" ->
            <<"Research analysis", "Knowledge extraction", "Document processing">>
      [] workflow_type = "automation" ->
            <<"Web scraping", "Browser automation", "Workflow automation">>
      [] OTHER -> <<"General capabilities">>

\* The task types, in the order the tasks are built.
_create_workflow_tasks(workflow_type) ==
    CASE workflow_type = "site_recreation" ->
            <<"analyze_site", "design_interface", "generate_code", "test_quality">>
      [] workflow_type = "business_analysis" ->
            <<"analyze_portfolio", "financial_analysis", "generate_report">>
      [] OTHER -> <<"execute_workflow">>

RECURSIVE Concat(_)
Concat(seqs) == IF seqs = <<>> THEN <<>> ELSE Head(seqs) \o Concat(Tail(seqs))

\* Keys of a dict filled from `s` in order: first occurrences, in order.
RECURSIVE Unique(_)
Unique(s) ==
    IF s = <<>> THEN <<>>
    ELSE LET rest == Unique(SelectSeq(Tail(s), LAMBDA x : x # Head(s)))
         IN  <<Head(s)>> \o rest

\* A simple selection that keeps an agent once per capability found.
_select_agents_simple_keeps_duplicates(w, reg) ==
    LET required_capabilities == _get_required_capabilities(w.workflow_type)
        suitable_agents ==
            Concat([i \in 1..Len(required_capabilities) |->
                        find_agents_by_capability(reg, required_capabilities[i])])
    IN  [w EXCEPT !.assigned_agents =
                      SelectSeq(suitable_agents, LAMBDA a : reg[a].status = "active")]

_select_agents_simple(w, reg) ==
    LET required_capabilities == _get_required_capabilities(w.workflow_type)
        suitable_agents ==
            Concat([i \in 1..Len(required_capabilities) |->
                        find_agents_by_capability(reg, required_capabilities[i])])
        active == SelectSeq(suitable_agents, LAMBDA a : reg[a].status = "active")
    IN  [w EXCEPT !.assigned_agents = Unique(active)]

\* What DecisionEngine.evaluate_decision can answer: a DecisionResult, or an
\* exception.
Decisions(reg) ==
    {[target_type |-> "agent", target |-> a] : a \in list_agents(reg, "active")}
    \cup {[target_type |-> "workflow", target |-> f] : f \in Flows}
    \cup {[target_type |-> "human", target |-> "esc-1"]}
    \cup {[target_type |-> "raise", target |-> NONE]}

\* Lines 213-226: the decision written into the workflow.
ApplyDecision(w, result) ==
    CASE result.target_type = "agent" ->
            [w EXCEPT !.assigned_agents = <<result.target>>,
                      !.metadata = DictSet(DictSet(@, "decision_reasoning", "agent chosen"),
                                           "decision_confidence", "confidence")]
      [] result.target_type = "workflow" ->
            [w EXCEPT !.metadata = DictSet(DictSet(@, "n8n_workflow_id", result.target),
                                           "decision_reasoning", "external flow"),
                      !.assigned_agents = <<>>]
      [] result.target_type = "human" ->
            [w EXCEPT !.metadata = DictSet(DictSet(@, "escalation_id", result.target),
                                           "decision_reasoning", "human escalation"),
                      !.assigned_agents = <<>>]
      [] OTHER -> w

\* What N8NAdapter.execute_workflow can answer: an execution, or an exception.
Executions ==
    {[execution_id |-> "exec-1", status |-> s, result_data |-> "data",
      error_message |-> IF s = "failed" THEN "flow failed" ELSE NONE] :
        s \in {"completed", "failed", "running"}}
    \cup {[execution_id |-> NONE, status |-> "raise", result_data |-> NONE,
           error_message |-> "client error"]}

\* Lines 277-298: the adapter's answer written into the workflow.
_execute_n8n_workflow(w, execution) ==
    IF execution.status = "raise"
    THEN [w EXCEPT !.status = "failed",
                   !.error = "N8N workflow execution failed: " \o execution.error_message]
    ELSE LET w1 == [w EXCEPT !.results = DictSet(@, "n8n_execution", execution)]
         IN  IF execution.status = "completed"
             THEN [w1 EXCEPT !.status = "completed"]
             ELSE [w1 EXCEPT !.status = "failed", !.error = execution.error_message]

\* Lines 291-293.
_execute_n8n_no_adapter(w) ==
    [w EXCEPT !.status = "failed", !.error = "N8N adapter not available"]

\* A pass of the monitor loop that empties the list whatever the statuses.
MonitorPoll_drops_all(w, q) == [w EXCEPT !.tasks = <<>>]

\* One pass of the monitor loop, lines 321-337.
MonitorPoll(w, q) ==
    LET finished(task_id) ==
            /\ Known(q, task_id)
            /\ get_task_status(q, task_id).status \in TerminalTask
    IN  [w EXCEPT !.tasks = SelectSeq(@, LAMBDA task_id : ~finished(task_id))]

RECURSIVE CollectResults(_, _, _)
CollectResults(results, tasks, q) ==
    IF tasks = <<>> THEN results
    ELSE LET task_id == Head(tasks)
             task_status == get_task_status(q, task_id)
             next == IF Known(q, task_id) /\ task_status.status = "completed"
                     THEN DictSet(results, task_id, task_status.result)
                     ELSE results
         IN  CollectResults(next, Tail(tasks), q)

_process_results(w, q) ==
    LET w1 == SetPhase(w, "result_processing")
    IN  [w1 EXCEPT !.results = CollectResults(@, w1.tasks, q)]

\* A completion that leaves current_phase as it was.
_complete_workflow_keeps_phase(w) ==
    SetCompletedAt([w EXCEPT !.status = "completed"])

_complete_workflow(w) ==
    SetCompletedAt([SetPhase(w, "completion") EXCEPT !.status = "completed"])

\* A cancellation handler that does not stamp completed_at.
OnCancelled_without_timestamp(w) == [w EXCEPT !.status = "cancelled"]

\* An exception handler that records the error and leaves the status.
OnException_keeps_status(w, e) == SetCompletedAt([w EXCEPT !.error = e])

\* Lines 128-131 and 132-136: the handlers of _execute_workflow.
OnCancelled(w) == SetCompletedAt([w EXCEPT !.status = "cancelled"])

OnException(w, e) == SetCompletedAt([w EXCEPT !.status = "failed", !.error = e])

\* ------------------------------------------ the execution task's stretches
\* The outcome of one uninterrupted stretch of _execute_workflow: the
\* workflow, the queue, the ids issued, and where the task is suspended next
\* ("done" once the coroutine has left its finally block).
Stretch(w, q, n, at) == [w |-> w, q |-> q, n |-> n, pc |-> at]

\* Phases 4 and 5, lines 122-126: no await in them.
Finish(w, q, n) ==
    Stretch(_complete_workflow(_process_results(w, q)), q, n, "done")

\* A monitor that raises when it meets a failed task.
Monitor_fails_on_failed_task(w, q, n) ==
    LET w1 == IF w.tasks = <<>> THEN w ELSE MonitorPoll(w, q)
        failed == \E i \in DOMAIN w.tasks :
                      Known(q, w.tasks[i]) /\ q[w.tasks[i]].status = "failed"
    IN  IF failed THEN Stretch(OnException(w1, "task failed"), q, n, "done")
        ELSE IF w1.tasks = <<>> THEN Finish(w1, q, n)
        ELSE Stretch(w1, q, n, "monitor_sleep")

\* _monitor_task_execution up to its sleep, lines 320-343.
Monitor(w, q, n) ==
    LET w1 == IF w.tasks = <<>> THEN w ELSE MonitorPoll(w, q)
    IN  IF w1.tasks = <<>> THEN Finish(w1, q, n)
        ELSE Stretch(w1, q, n, "monitor_sleep")

\* _execute_tasks up to its first await, lines 255-307.
ExecuteTasks(w, q, n, adapter) ==
    LET w1 == SetPhase(w, "task_execution")
    IN  IF DictGet(w1.metadata, "n8n_workflow_id") # NONE
        THEN IF adapter
             THEN Stretch(w1, q, n, "n8n_wait")
             ELSE Finish(_execute_n8n_no_adapter(w1), q, n)
        ELSE IF _create_workflow_tasks(w1.workflow_type) = <<>>
             THEN Monitor(w1, q, n)
             ELSE Stretch(w1, q, n, "enqueue")

\* One iteration of the loop of _execute_agent_tasks, lines 306-313, and
\* what follows the last one.
EnqueueNext(w, q, n) ==
    LET tasks == _create_workflow_tasks(w.workflow_type)
        i == Len(w.created) + 1
        task_id == TaskId(n + 1)
        q1 == enqueue_task(q, n + 1, Task(tasks[i]))
        w1 == [w EXCEPT !.tasks = Append(@, task_id), !.created = Append(@, task_id)]
        q2 == IF w1.assigned_agents # <<>>
              THEN assign_agent(q1, task_id, w1.assigned_agents[1])
              ELSE q1
    IN  IF i < Len(tasks) THEN Stretch(w1, q2, n + 1, "enqueue")
        ELSE Monitor(w1, q2, n + 1)

\* except asyncio.CancelledError / except Exception, then finally.
Cancelled(w, q, n) == Stretch(OnCancelled(w), q, n, "done")

Failed(w, e, q, n) == Stretch(OnException(w, e), q, n, "done")

\* The stretch is written back; a finished coroutine has removed its entry
\* from running_workflows (lines 137-139).
Resume(id, out) ==
    /\ wf' = [wf EXCEPT ![id] = out.w]
    /\ queue' = out.q
    /\ next_task' = out.n
    /\ pc' = [pc EXCEPT ![id] = out.pc]
    /\ running_workflows' = IF out.pc = "done" THEN running_workflows \ {id}
                            ELSE running_workflows
    /\ must_cancel' = [must_cancel EXCEPT ![id] = FALSE]

\* --------------------------------------------------------- CircuitBreaker
\* CircuitBreaker.__init__.  last_failure_time is <<>> for None and <<t>> for
\* the time t.  streak is a history field: the failures recorded since the last
\* recorded success (or since construction).
CircuitBreaker(failure_threshold, recovery_timeout) ==
    [failure_threshold |-> failure_threshold,
     recovery_timeout |-> recovery_timeout,
     failure_count |-> 0,
     last_failure_time |-> <<>>,
     state |-> "CLOSED",
     streak |-> 0]

\* A can_execute that clears the failure count when it lets a probe through.
can_execute_clears_count(cb, t) ==
    IF cb.state = "CLOSED" THEN [result |-> TRUE, cb |-> cb]
    ELSE IF cb.state = "OPEN"
         THEN IF t - cb.last_failure_time[1] >= cb.recovery_timeout
              THEN [result |-> TRUE,
                    cb |-> [cb EXCEPT !.state = "HALF_OPEN", !.failure_count = 0]]
              ELSE [result |-> FALSE, cb |-> cb]
    ELSE [result |-> TRUE, cb |-> cb]

\* A can_execute that counts a rejection as a failure.
can_execute_counts_rejection(cb, t) ==
    IF cb.state = "OPEN"
    THEN IF t - cb.last_failure_time[1] >= cb.recovery_timeout
         THEN [result |-> TRUE, cb |-> [cb EXCEPT !.state = "HALF_OPEN"]]
         ELSE [result |-> FALSE, cb |-> [cb EXCEPT !.failure_count = @ + 1]]
    ELSE [result |-> TRUE, cb |-> cb]

\* can_execute at time t: what it returns, and the breaker it leaves.
can_execute(cb, t) ==
    IF cb.state = "CLOSED" THEN [result |-> TRUE, cb |-> cb]
    ELSE IF cb.state = "OPEN"
    THEN IF t - cb.last_failure_time[1] >= cb.recovery_timeout
         THEN [result |-> TRUE, cb |-> [cb EXCEPT !.state = "HALF_OPEN"]]
         ELSE [result |-> FALSE, cb |-> cb]
    ELSE [result |-> TRUE, cb |-> cb]

\* A record_success that closes the breaker and keeps the failure count.
record_success_keeps_count(cb) ==
    [cb EXCEPT !.state = "CLOSED", !.streak = 0]

record_success(cb) ==
    [cb EXCEPT !.failure_count = 0, !.state = "CLOSED", !.streak = 0]

\* A record_failure that opens the breaker only above the threshold.
record_failure_above_threshold(cb, t) ==
    LET cb1 == [cb EXCEPT !.failure_count = @ + 1, !.last_failure_time = <<t>>,
                          !.streak = @ + 1]
    IN  IF cb1.failure_count > cb1.failure_threshold
        THEN [cb1 EXCEPT !.state = "OPEN"]
        ELSE cb1

\* A record_failure that opens the breaker only when the count reaches the
\* threshold exactly.
record_failure_on_threshold_only(cb, t) ==
    LET cb1 == [cb EXCEPT !.failure_count = @ + 1, !.last_failure_time = <<t>>,
                          !.streak = @ + 1]
    IN  IF cb1.failure_count = cb1.failure_threshold
        THEN [cb1 EXCEPT !.state = "OPEN"]
        ELSE cb1

\* record_failure at time t.
record_failure(cb, t) ==
    LET cb1 == [cb EXCEPT !.failure_count = @ + 1, !.last_failure_time = <<t>>,
                          !.streak = @ + 1]
    IN  IF cb1.failure_count >= cb1.failure_threshold
        THEN [cb1 EXCEPT !.state = "OPEN"]
        ELSE cb1

\* ----------------------------------------------------- PerformanceMonitor
\* The counters of PerformanceMonitor.metrics (the averages and gauges are
\* read by no operation modelled here).
Metrics == [request_count |-> 0, error_count |-> 0]

record_request(m, success) ==
    [m EXCEPT !.request_count = @ + 1,
              !.error_count = IF success THEN @ ELSE @ + 1]

\* ------------------------------------------------- _execute_with_retry
Calls == 1..MaxCalls

\* One call of _execute_with_retry: where it is, the loop variable `attempt`,
\* when its sleep ends, and as history the invocations of the guarded
\* function it made, the sum of the delays it asked asyncio.sleep for, and
\* whether can_execute admitted it with the breaker HALF_OPEN.
Call(at, probe) ==
    [pc |-> at, attempt |-> 0, wake |-> 0,
     invoked |-> IF at = "in_func" THEN 1 ELSE 0, slept |-> 0, probe |-> probe]

Ended == {"idle", "returned", "raised", "rejected"}

\* A retry delay that does not grow.
retry_backoff_constant(attempt) == retry_delay

\* The delay slept after the failure of attempt `attempt` (0-based).
retry_backoff(attempt) == retry_delay * (2 ^ attempt)

\* The integrator as constructed, with no call made.
\* The keys f"{operation}:{identifier}" that are checked, lines 514 and 552.
Keys == {"workflow_integration:default", "business_workflow:w1"}

\* A loop that tests only monitoring_active, not the event.
monitoring_loop_ignores_event(l) ==
    /\ loops[l] \in {"created", "sleeping", "retry_sleeping"}
    /\ IF monitoring_active
       THEN \E raised \in BOOLEAN :
               /\ loops' = [loops EXCEPT ![l] = IF raised THEN "retry_sleeping"
                                                         ELSE "sleeping"]
               /\ circuit_breaker' =
                     IF l = "security" /\ ~raised
                     THEN can_execute(circuit_breaker, now).cb
                     ELSE circuit_breaker
       ELSE /\ loops' = [loops EXCEPT ![l] = "done"]
            /\ UNCHANGED circuit_breaker
    /\ UNCHANGED <<shutdown_event, monitoring_active, monitor_pc, metrics,
                   calls, now, limiter, engine>>

\* A _check_rate_limit that records the request before it tests the limit.
_check_rate_limit_records_rejected(timestamps, t) ==
    LET kept == SelectSeq(timestamps, LAMBDA timestamp : t - timestamp < ApiRateLimit)
    IN  IF Len(kept) >= ApiRateLimit
        THEN [result |-> FALSE, timestamps |-> Append(kept, t)]
        ELSE [result |-> TRUE, timestamps |-> Append(kept, t)]

\* A _check_rate_limit that rejects only above the limit.
_check_rate_limit_above_limit(timestamps, t) ==
    LET kept == SelectSeq(timestamps, LAMBDA timestamp : t - timestamp < ApiRateLimit)
    IN  IF Len(kept) > ApiRateLimit
        THEN [result |-> FALSE, timestamps |-> kept]
        ELSE [result |-> TRUE, timestamps |-> Append(kept, t)]

\* _check_rate_limit at time t on the list of one key, lines 466-479: the
\* answer and the list it leaves.
_check_rate_limit(timestamps, t) ==
    LET kept == SelectSeq(timestamps, LAMBDA timestamp : t - timestamp < ApiRateLimit)
    IN  IF Len(kept) >= ApiRateLimit
        THEN [result |-> FALSE, timestamps |-> kept]
        ELSE [result |-> TRUE, timestamps |-> Append(kept, t)]

\* The four monitoring loops of WorkflowMonitor, lines 841-887.
Loops == {"health", "metrics", "performance", "security"}

\* Where a loop task is: not created, created by gather and not yet run,
\* suspended in the sleep that follows a check or in the sleep that follows
\* a failed check, or finished.
LoopAt == {"none", "created", "sleeping", "retry_sleeping", "done"}

\* WorkflowMonitor.__init__, lines 798-814, with the event of the integrator
\* not set.
WorkflowMonitorInit ==
    /\ shutdown_event = FALSE
    /\ monitoring_active = FALSE
    /\ loops = [l \in Loops |-> "none"]
    /\ monitor_pc = "idle"

IntegrationInit(failure_threshold, recovery_timeout) ==
    /\ circuit_breaker = CircuitBreaker(failure_threshold, recovery_timeout)
    /\ metrics = Metrics
    /\ calls = [c \in Calls |-> Call("idle", FALSE)]
    /\ now = 0
    /\ rate_limiter = EmptyDict
    /\ rate_log = [key \in Keys |-> <<>>]
    /\ WorkflowMonitorInit

\* ------------------------------------------------------------------ Init
RECURSIVE TotalTasks(_, _)
TotalTasks(objects, ids) ==
    IF ids = {} THEN 0
    ELSE LET id == CHOOSE x \in ids : TRUE
         IN  Len(_create_workflow_tasks(objects[id].workflow_type))
               + TotalTasks(objects, ids \ {id})

\* The callers submit no more work at a time than one business_analysis
\* workflow creates.
TaskBudget == Len(_create_workflow_tasks("business_analysis"))

Idle == [id |-> NONE, i |-> 0, task_id |-> NONE]

Return(op, id, result) == [op |-> op, id |-> id, result |-> result]

NoReturn == Return(NONE, NONE, NONE)

\* The inputs of _assess_workflow_complexity: the workflow types its table
\* names and one it does not, payload sizes len(str(payload)) on both sides
\* of its two limits, and the four priorities.
ComplexityTypes ==
    {"simple", "data_processing", "automation", "integration", "complex",
     "critical", "business_analysis"}

PayloadSizes == {2, 1000, 1001, 10000, 10001}

TaskPriority == {"LOW", "NORMAL", "HIGH", "CRITICAL"}

Min(a, b) == IF a < b THEN a ELSE b

\* An assessment that does not clamp the score.
_assess_workflow_complexity_unclamped(workflow_type, payload_size, priority) ==
    LET base == CASE workflow_type = "simple" -> 2
                  [] workflow_type = "data_processing" -> 4
                  [] workflow_type = "automation" -> 5
                  [] workflow_type = "integration" -> 6
                  [] workflow_type = "complex" -> 8
                  [] workflow_type = "critical" -> 10
                  [] OTHER -> 3
        sized == IF payload_size > 10000 THEN base + 2
                 ELSE IF payload_size > 1000 THEN base + 1
                 ELSE base
    IN  IF priority = "HIGH" THEN sized + 1
        ELSE IF priority = "CRITICAL" THEN sized + 2
        ELSE sized

\* _assess_workflow_complexity, lines 445-474, on a workflow of the given
\* type, payload size and priority.
_assess_workflow_complexity(workflow_type, payload_size, priority) ==
    LET type_complexity ==
            CASE workflow_type = "simple" -> 2
              [] workflow_type = "data_processing" -> 4
              [] workflow_type = "automation" -> 5
              [] workflow_type = "integration" -> 6
              [] workflow_type = "complex" -> 8
              [] workflow_type = "critical" -> 10
              [] OTHER -> 3
        sized == IF payload_size > 10000 THEN type_complexity + 2
                 ELSE IF payload_size > 1000 THEN type_complexity + 1
                 ELSE type_complexity
        complexity == IF priority = "HIGH" THEN sized + 1
                      ELSE IF priority = "CRITICAL" THEN sized + 2
                      ELSE sized
    IN  Min(complexity, 10)

\* No workflow has been handed to the assessment; a workflow handed to it
\* with no score yet (complexity <<>>) or with its score (<<n>>).
NoAssessment ==
    [workflow_type |-> NONE, payload_size |-> 0, priority |-> NONE,
     complexity |-> <<>>]

\* WorkflowEngine.__init__, with the Workflow objects the callers will submit.
\* Without a decision engine neither the memory manager nor the adapter is
\* ever read; the engines taken have all three collaborators, the decision
\* engine alone, or none.
Init ==
    /\ wf \in [Ids(MaxWorkflows) -> {Workflow(t) : t \in WorkflowTypes}]
    /\ workflows = {}
    /\ running_workflows = {}
    /\ _shutdown = FALSE
    /\ decision_engine \in BOOLEAN
    /\ memory_manager \in BOOLEAN
    /\ n8n_adapter \in BOOLEAN
    /\ decision_engine = FALSE => memory_manager = FALSE
    /\ memory_manager = n8n_adapter
    /\ registry \in Registries
    /\ queue = EmptyDict
    /\ next_task = 0
    /\ pc = [id \in WorkflowIds |-> "none"]
    /\ must_cancel = [id \in WorkflowIds |-> FALSE]
    /\ cancel_pc = Idle
    /\ shutdown_pc = "idle"
    /\ gather_set = {}
    /\ returned = NoReturn
    /\ assessment = NoAssessment
    /\ IntegrationInit(DefaultFailureThreshold, DefaultRecoveryTimeout)

\* --------------------------------------------------- WorkflowEngine, API
\* A start_workflow that does not look at the shutdown flag.
start_workflow_unguarded(id) ==
    /\ id \notin workflows
    /\ wf[id].status = "pending"
    /\ TotalTasks(wf, workflows \cup {id}) <= TaskBudget
    /\ workflows' = workflows \cup {id}
    /\ wf' = [wf EXCEPT ![id].status = "running", ![id].started_at = Now(wf[id])]
    /\ pc' = [pc EXCEPT ![id] = "created"]
    /\ running_workflows' = running_workflows \cup {id}
    /\ returned' = Return("start_workflow", id, id)
    /\ UNCHANGED <<_shutdown, collaborators, assessment, integration, queue, next_task, must_cancel,
                   cancel_pc, shutdown_pc, gather_set>>

\* A start_workflow that runs the first phase itself before it returns.
start_workflow_runs_first_phase(id) ==
    /\ id \notin workflows
    /\ wf[id].status = "pending"
    /\ TotalTasks(wf, workflows \cup {id}) <= TaskBudget
    /\ ~_shutdown
    /\ workflows' = workflows \cup {id}
    /\ wf' = [wf EXCEPT ![id] =
                 SetPhase([@ EXCEPT !.status = "running", !.started_at = Now(wf[id])],
                          "initialization")]
    /\ pc' = [pc EXCEPT ![id] = "init_sleep"]
    /\ running_workflows' = running_workflows \cup {id}
    /\ returned' = Return("start_workflow", id, id)
    /\ UNCHANGED <<_shutdown, collaborators, assessment, integration, queue, next_task,
                   must_cancel, cancel_pc, shutdown_pc, gather_set>>

\* start_workflow, lines 94-108, on a Workflow object fresh from its
\* constructor.
start_workflow(id) ==
    /\ id \notin workflows
    /\ wf[id].status = "pending"
    /\ TotalTasks(wf, workflows \cup {id}) <= TaskBudget
    /\ IF _shutdown
       THEN /\ returned' = Return("start_workflow", id, "RuntimeError")
            /\ UNCHANGED <<wf, workflows, running_workflows, pc>>
       ELSE /\ workflows' = workflows \cup {id}
            /\ wf' = [wf EXCEPT ![id].status = "running", ![id].started_at = Now(wf[id])]
            /\ pc' = [pc EXCEPT ![id] = "created"]
            /\ running_workflows' = running_workflows \cup {id}
            /\ returned' = Return("start_workflow", id, id)
    /\ UNCHANGED <<_shutdown, collaborators, assessment, integration, queue, next_task, must_cancel,
                   cancel_pc, shutdown_pc, gather_set>>

\* Task.cancel() on the execution tasks of `ids`: a finished task ignores it.
TaskCancel(ids) ==
    [id \in WorkflowIds |->
        IF id \in ids /\ pc[id] \notin {"none", "done"} THEN TRUE ELSE must_cancel[id]]

\* Lines 432-435 of cancel_workflow.
MarkCancelled(id) ==
    /\ wf' = [wf EXCEPT ![id] = SetCompletedAt([@ EXCEPT !.status = "cancelled"])]
    /\ cancel_pc' = Idle
    /\ returned' = Return("cancel_workflow", id, "True")

\* A cancel_workflow without the check of the workflow's status.
cancel_workflow_unchecked(id) ==
    /\ cancel_pc = Idle
    /\ IF id \notin workflows
       THEN /\ returned' = Return("cancel_workflow", id, "False")
            /\ UNCHANGED <<wf, cancel_pc, must_cancel>>
       ELSE /\ must_cancel' = TaskCancel({id} \cap running_workflows)
            /\ IF wf[id].tasks = <<>>
               THEN MarkCancelled(id)
               ELSE /\ cancel_pc' = [id |-> id, i |-> 1, task_id |-> wf[id].tasks[1]]
                    /\ returned' = NoReturn
                    /\ UNCHANGED wf
    /\ UNCHANGED <<workflows, running_workflows, _shutdown, collaborators, assessment, integration, queue,
                   next_task, pc, shutdown_pc, gather_set>>

\* cancel_workflow, lines 413-430 (to its first await, or to its return).
cancel_workflow(id) ==
    /\ cancel_pc = Idle
    /\ IF id \notin workflows \/ wf[id].status \in TerminalWorkflow
       THEN /\ returned' = Return("cancel_workflow", id, "False")
            /\ UNCHANGED <<wf, cancel_pc, must_cancel>>
       ELSE /\ must_cancel' = TaskCancel({id} \cap running_workflows)
            /\ IF wf[id].tasks = <<>>
               THEN MarkCancelled(id)
               ELSE /\ cancel_pc' = [id |-> id, i |-> 1, task_id |-> wf[id].tasks[1]]
                    /\ returned' = NoReturn
                    /\ UNCHANGED wf
    /\ UNCHANGED <<workflows, running_workflows, _shutdown, collaborators, assessment, integration, queue,
                   next_task, pc, shutdown_pc, gather_set>>

\* A cancel_workflow that leaves its loop after the first task.
cancel_workflow_resume_first_only ==
    /\ cancel_pc # Idle
    /\ queue' = cancel_task(queue, cancel_pc.task_id)
    /\ MarkCancelled(cancel_pc.id)
    /\ UNCHANGED <<workflows, running_workflows, _shutdown, collaborators, assessment, integration,
                   next_task, pc, must_cancel, shutdown_pc, gather_set>>

\* cancel_workflow resumed in `await self.task_queue.cancel_task(task_id)`,
\* lines 429-435: the task is cancelled, then the loop goes on over the list
\* as it is now.
cancel_workflow_resume ==
    /\ cancel_pc # Idle
    /\ LET id == cancel_pc.id
           i == cancel_pc.i + 1
       IN  /\ queue' = cancel_task(queue, cancel_pc.task_id)
           /\ IF i <= Len(wf[id].tasks)
              THEN /\ cancel_pc' = [id |-> id, i |-> i, task_id |-> wf[id].tasks[i]]
                   /\ returned' = NoReturn
                   /\ UNCHANGED wf
              ELSE MarkCancelled(id)
    /\ UNCHANGED <<workflows, running_workflows, _shutdown, collaborators, assessment, integration,
                   next_task, pc, must_cancel, shutdown_pc, gather_set>>

\* shutdown, lines 494-504, to its await (or to its return when nothing runs).
shutdown ==
    /\ shutdown_pc = "idle"
    /\ _shutdown' = TRUE
    /\ must_cancel' = TaskCancel(running_workflows)
    /\ gather_set' = running_workflows
    /\ IF running_workflows # {}
       THEN shutdown_pc' = "gather" /\ returned' = NoReturn
       ELSE shutdown_pc' = "done" /\ returned' = Return("shutdown", NONE, NONE)
    /\ UNCHANGED <<wf, workflows, running_workflows, collaborators, assessment, integration, queue,
                   next_task, pc, cancel_pc>>

\* asyncio.gather returns once every awaited task has finished, lines 504-506.
shutdown_return ==
    /\ shutdown_pc = "gather"
    /\ \A id \in gather_set : pc[id] = "done"
    /\ shutdown_pc' = "done"
    /\ returned' = Return("shutdown", NONE, NONE)
    /\ UNCHANGED <<wf, workflows, running_workflows, _shutdown, collaborators, assessment, integration,
                   queue, next_task, pc, must_cancel, cancel_pc, gather_set>>

\* An agent takes up a task assigned to it.
agent_start(task_id) ==
    /\ Known(queue, task_id)
    /\ queue' = start_task(queue, task_id)
    /\ returned' = NoReturn
    /\ UNCHANGED <<wf, workflows, running_workflows, _shutdown, collaborators, assessment, integration,
                   next_task, pc, must_cancel, cancel_pc, shutdown_pc, gather_set>>

\* handle_results, lines 441-443.
handle_results(task_id, result, error) ==
    /\ Known(queue, task_id)
    /\ queue' = complete_task(queue, task_id, result, error)
    /\ returned' = NoReturn
    /\ UNCHANGED <<wf, workflows, running_workflows, _shutdown, collaborators, assessment, integration,
                   next_task, pc, must_cancel, cancel_pc, shutdown_pc, gather_set>>

\* -------------------------------------------- _execute_workflow, by stretch
\* What a stretch of an execution task leaves alone.
TaskFrame ==
    /\ returned' = NoReturn
    /\ UNCHANGED <<workflows, _shutdown, collaborators, assessment, integration, cancel_pc, shutdown_pc,
                   gather_set>>

\* The event loop runs a task that was cancelled: before its first run the
\* coroutine is closed without executing; otherwise CancelledError is raised
\* at its await and handled at lines 128-131.
run_cancelled(id) ==
    /\ pc[id] \notin {"none", "done"}
    /\ must_cancel[id]
    /\ IF pc[id] = "created"
       THEN /\ pc' = [pc EXCEPT ![id] = "done"]
            /\ must_cancel' = [must_cancel EXCEPT ![id] = FALSE]
            /\ UNCHANGED <<wf, running_workflows, queue, next_task>>
       ELSE Resume(id, Cancelled(wf[id], queue, next_task))
    /\ TaskFrame

Runs(id, at) == pc[id] = at /\ ~must_cancel[id]

\* _initialize_workflow to its sleep, lines 141-147.
_initialize_workflow(id) ==
    /\ Runs(id, "created")
    /\ Resume(id, Stretch(SetPhase(wf[id], "initialization"), queue, next_task,
                          "init_sleep"))
    /\ TaskFrame

\* _select_agents, lines 149-159, and _select_agents_with_decision_engine up
\* to its first await, lines 163-210; an exception there (the imports, the
\* registry) falls back to _select_agents_simple.
_select_agents(id) ==
    /\ Runs(id, "init_sleep")
    /\ LET w == SetPhase(wf[id], "agent_selection")
       IN  IF decision_engine
           THEN \E raises \in BOOLEAN :
                  Resume(id,
                    IF raises
                    THEN ExecuteTasks(_select_agents_simple(w, registry), queue,
                                      next_task, n8n_adapter)
                    ELSE Stretch(w, queue, next_task,
                                 IF memory_manager THEN "memory_wait"
                                 ELSE "decision_wait"))
           ELSE Resume(id, ExecuteTasks(_select_agents_simple(w, registry), queue,
                                        next_task, n8n_adapter))
    /\ TaskFrame

\* retrieve_context returns or raises, lines 199-210.
retrieve_context(id) ==
    /\ Runs(id, "memory_wait")
    /\ \E raises \in BOOLEAN :
          Resume(id,
            IF raises
            THEN ExecuteTasks(_select_agents_simple(wf[id], registry), queue,
                              next_task, n8n_adapter)
            ELSE Stretch(wf[id], queue, next_task, "decision_wait"))
    /\ TaskFrame

\* evaluate_decision returns or raises, lines 210-232.
evaluate_decision(id) ==
    /\ Runs(id, "decision_wait")
    /\ \E result \in Decisions(registry) :
          Resume(id,
            ExecuteTasks(IF result.target_type = "raise"
                         THEN _select_agents_simple(wf[id], registry)
                         ELSE ApplyDecision(wf[id], result),
                         queue, next_task, n8n_adapter))
    /\ TaskFrame

\* The adapter's execute_workflow returns or raises, lines 272-298; phases 4
\* and 5 follow without an await.
n8n_return(id) ==
    /\ Runs(id, "n8n_wait")
    /\ \E execution \in Executions :
          Resume(id, Finish(_execute_n8n_workflow(wf[id], execution), queue,
                            next_task))
    /\ TaskFrame

\* enqueue_task returns or raises, lines 306-316.
_execute_agent_tasks(id) ==
    /\ Runs(id, "enqueue")
    /\ \E raises \in BOOLEAN :
          Resume(id,
            IF raises
            THEN Failed(wf[id], "queue error", queue, next_task)
            ELSE EnqueueNext(wf[id], queue, next_task))
    /\ TaskFrame

\* The monitor loop wakes from its sleep, lines 320-343.
_monitor_task_execution(id) ==
    /\ Runs(id, "monitor_sleep")
    /\ Resume(id, Monitor(wf[id], queue, next_task))
    /\ TaskFrame

TaskIds == DOMAIN queue

Next ==
    \/ \E id \in WorkflowIds : start_workflow(id)
    \/ \E id \in WorkflowIds : cancel_workflow(id)
    \/ cancel_workflow_resume
    \/ shutdown
    \/ shutdown_return
    \/ \E task_id \in TaskIds : agent_start(task_id)
    \/ \E task_id \in TaskIds, error \in {NONE, "task error"} :
          handle_results(task_id, "result of " \o task_id, error)
    \/ \E id \in WorkflowIds : run_cancelled(id)
    \/ \E id \in WorkflowIds : _initialize_workflow(id)
    \/ \E id \in WorkflowIds : _select_agents(id)
    \/ \E id \in WorkflowIds : retrieve_context(id)
    \/ \E id \in WorkflowIds : evaluate_decision(id)
    \/ \E id \in WorkflowIds : n8n_return(id)
    \/ \E id \in WorkflowIds : _execute_agent_tasks(id)
    \/ \E id \in WorkflowIds : _monitor_task_execution(id)

Spec == Init /\ [][Next]_vars

\* The event loop runs every task that is ready, and timers fire: a stretch
\* of an execution task that can run does run.
Fairness ==
    \A id \in Ids(MaxWorkflows) :
        /\ WF_vars(run_cancelled(id))
        /\ WF_vars(_initialize_workflow(id))
        /\ WF_vars(_select_agents(id))
        /\ WF_vars(retrieve_context(id))
        /\ WF_vars(evaluate_decision(id))
        /\ WF_vars(n8n_return(id))
        /\ WF_vars(_execute_agent_tasks(id))
        /\ WF_vars(_monitor_task_execution(id))

FairSpec == Spec /\ Fairness

\* ----------------------------------------- IZAOSWorkflowIntegrator, steps
\* The run is cut after MaxRequests invocations of guarded functions.
CanInvoke ==
    metrics.request_count
        + Cardinality({c \in Calls : calls[c].pc = "in_func"}) < MaxRequests

\* _execute_with_retry from its call to its first await, lines 481-489: the
\* breaker is asked once; a rejected call raises CircuitBreakerOpenError, an
\* admitted one invokes the guarded function (attempt 0).
_execute_with_retry(c) ==
    /\ calls[c].pc \in Ended
    /\ LET admission == can_execute(circuit_breaker, now)
       IN  /\ admission.result => CanInvoke
           /\ circuit_breaker' = admission.cb
           /\ calls' = [calls EXCEPT ![c] =
                          IF admission.result
                          THEN Call("in_func", admission.cb.state = "HALF_OPEN")
                          ELSE Call("rejected", FALSE)]
    /\ UNCHANGED <<metrics, now, limiter, monitor, engine>>

\* A wrapper that falls out of its loop after the last failure and returns
\* normally instead of re-raising.
attempt_ends_swallows_last_failure(c) ==
    /\ calls[c].pc = "in_func"
    /\ \E success \in BOOLEAN :
          /\ metrics' = record_request(metrics, success)
          /\ IF success
             THEN /\ circuit_breaker' = record_success(circuit_breaker)
                  /\ calls' = [calls EXCEPT ![c].pc = "returned"]
             ELSE LET attempt == calls[c].attempt
                      delay == retry_backoff(attempt)
                  IN  /\ circuit_breaker' = record_failure(circuit_breaker, now)
                      /\ calls' = [calls EXCEPT ![c] =
                            IF attempt = retry_attempts - 1
                            THEN [@ EXCEPT !.pc = "returned"]
                            ELSE [@ EXCEPT !.pc = "sleeping",
                                           !.wake = now + delay,
                                           !.slept = @ + delay]]
    /\ UNCHANGED <<now, limiter, monitor, engine>>

\* The guarded function returns or raises, lines 489-506.
attempt_ends(c) ==
    /\ calls[c].pc = "in_func"
    /\ \E success \in BOOLEAN :
          /\ metrics' = record_request(metrics, success)
          /\ IF success
             THEN /\ circuit_breaker' = record_success(circuit_breaker)
                  /\ calls' = [calls EXCEPT ![c].pc = "returned"]
             ELSE LET attempt == calls[c].attempt
                      delay == retry_backoff(attempt)
                  IN  /\ circuit_breaker' = record_failure(circuit_breaker, now)
                      /\ calls' = [calls EXCEPT ![c] =
                            IF attempt = retry_attempts - 1
                            THEN [@ EXCEPT !.pc = "raised"]
                            ELSE [@ EXCEPT !.pc = "sleeping",
                                           !.wake = now + delay,
                                           !.slept = @ + delay]]
    /\ UNCHANGED <<now, limiter, monitor, engine>>

\* asyncio.sleep returns, line 506, and the loop invokes the guarded
\* function again, lines 486-489.
retry_sleep_ends(c) ==
    /\ calls[c].pc = "sleeping"
    /\ now >= calls[c].wake
    /\ CanInvoke
    /\ calls' = [calls EXCEPT ![c].pc = "in_func", ![c].attempt = @ + 1,
                              ![c].invoked = @ + 1, ![c].wake = 0]
    /\ UNCHANGED <<circuit_breaker, metrics, now, limiter, monitor, engine>>

\* The clock advances.
time_passes ==
    /\ now < MaxTime
    /\ now' = now + 1
    /\ UNCHANGED <<circuit_breaker, metrics, calls, limiter, monitor, engine>>

RetryNext ==
    \/ \E c \in Calls : _execute_with_retry(c)
    \/ \E c \in Calls : attempt_ends(c)
    \/ \E c \in Calls : retry_sleep_ends(c)
    \/ time_passes

\* An integrator whose breaker has any threshold up to MaxThreshold; the
\* engine stays as constructed.
RetryInit ==
    /\ wf = [id \in Ids(MaxWorkflows) |-> Workflow("automation")]
    /\ workflows = {}
    /\ running_workflows = {}
    /\ _shutdown = FALSE
    /\ decision_engine = FALSE
    /\ memory_manager = FALSE
    /\ n8n_adapter = FALSE
    /\ registry = EmptyDict
    /\ queue = EmptyDict
    /\ next_task = 0
    /\ pc = [id \in WorkflowIds |-> "none"]
    /\ must_cancel = [id \in WorkflowIds |-> FALSE]
    /\ cancel_pc = Idle
    /\ shutdown_pc = "idle"
    /\ gather_set = {}
    /\ returned = NoReturn
    /\ assessment = NoAssessment
    /\ \E failure_threshold \in 1..MaxThreshold :
          IntegrationInit(failure_threshold, RecoveryTimeout)

RetrySpec == RetryInit /\ [][RetryNext]_vars

\* ------------------------------------------- complexity assessment, steps
\* A caller constructs a Workflow, lines 37-52.
new_workflow ==
    /\ assessment.complexity = <<>>
    /\ \E workflow_type \in ComplexityTypes, payload_size \in PayloadSizes,
          priority \in TaskPriority :
          assessment' = [workflow_type |-> workflow_type,
                         payload_size |-> payload_size,
                         priority |-> priority, complexity |-> <<>>]
    /\ UNCHANGED <<wf, workflows, running_workflows, _shutdown, collaborators,
                   queue, next_task, pc, must_cancel, cancel_pc, shutdown_pc,
                   gather_set, returned, integration>>

\* The engine assesses the workflow, line 188.
assess_workflow_complexity ==
    /\ assessment.workflow_type # NONE
    /\ assessment.complexity = <<>>
    /\ assessment' =
          [assessment EXCEPT !.complexity =
              <<_assess_workflow_complexity(assessment.workflow_type,
                                            assessment.payload_size,
                                            assessment.priority)>>]
    /\ UNCHANGED <<wf, workflows, running_workflows, _shutdown, collaborators,
                   queue, next_task, pc, must_cancel, cancel_pc, shutdown_pc,
                   gather_set, returned, integration>>

ComplexityNext ==
    \/ new_workflow
    \/ assess_workflow_complexity

ComplexitySpec == RetryInit /\ [][ComplexityNext]_vars

\* ------------------------------------------------- rate limiter, steps
\* One call of _check_rate_limit, lines 458-479, on a key.
check_rate_limit(key) ==
    /\ Len(rate_log[key]) < MaxChecks
    /\ LET timestamps == IF key \in DOMAIN rate_limiter
                         THEN rate_limiter[key] ELSE <<>>
           check == _check_rate_limit(timestamps, now)
       IN  /\ rate_limiter' = DictSet(rate_limiter, key, check.timestamps)
           /\ rate_log' = [rate_log EXCEPT ![key] =
                             Append(@, [at |-> now, admitted |-> check.result])]
    /\ UNCHANGED <<circuit_breaker, metrics, calls, now, monitor, engine>>

RateNext ==
    \/ \E key \in Keys : check_rate_limit(key)
    \/ time_passes

RateSpec == RetryInit /\ [][RateNext]_vars

\* ------------------------------------------------ WorkflowMonitor, steps
\* start_monitoring up to its await of gather, lines 816-834: the four loop
\* tasks exist and none has run.
start_monitoring ==
    /\ monitor_pc = "idle"
    /\ monitoring_active' = TRUE
    /\ loops' = [l \in Loops |-> "created"]
    /\ monitor_pc' = "gather"
    /\ UNCHANGED <<shutdown_event, circuit_breaker, metrics, calls, now,
                   limiter, engine>>

\* The signal handler, or any holder of the event, sets it.
set_shutdown_event ==
    /\ ~shutdown_event
    /\ shutdown_event' = TRUE
    /\ UNCHANGED <<monitoring_active, loops, monitor_pc, circuit_breaker,
                   metrics, calls, now, limiter, engine>>

\* One stretch of a monitoring loop, lines 841-887: from its start or from
\* the end of a sleep, the while condition is tested; if it holds the check
\* runs (none of the checks suspends) and the loop sleeps for its interval,
\* or for its retry delay when the check raised.  The security check asks
\* the breaker can_execute(), line 960.
monitoring_loop(l) ==
    /\ loops[l] \in {"created", "sleeping", "retry_sleeping"}
    /\ IF ~shutdown_event /\ monitoring_active
       THEN \E raised \in BOOLEAN :
               /\ loops' = [loops EXCEPT ![l] = IF raised THEN "retry_sleeping"
                                                         ELSE "sleeping"]
               /\ circuit_breaker' =
                     IF l = "security" /\ ~raised
                     THEN can_execute(circuit_breaker, now).cb
                     ELSE circuit_breaker
       ELSE /\ loops' = [loops EXCEPT ![l] = "done"]
            /\ UNCHANGED circuit_breaker
    /\ UNCHANGED <<shutdown_event, monitoring_active, monitor_pc, metrics,
                   calls, now, limiter, engine>>

\* gather returns when the four loops have finished; the finally clause
\* runs _cleanup, lines 1016-1034, and start_monitoring returns.
start_monitoring_return ==
    /\ monitor_pc = "gather"
    /\ \A l \in Loops : loops[l] = "done"
    /\ monitoring_active' = FALSE
    /\ monitor_pc' = "returned"
    /\ UNCHANGED <<shutdown_event, loops, circuit_breaker, metrics, calls, now,
                   limiter, engine>>

MonitorNext ==
    \/ start_monitoring
    \/ set_shutdown_event
    \/ \E l \in Loops : monitoring_loop(l)
    \/ start_monitoring_return

\* The event loop runs every task that is ready, and every sleep ends.
MonitorFairness ==
    /\ \A l \in Loops : WF_vars(monitoring_loop(l))
    /\ WF_vars(start_monitoring_return)

MonitorSpec == RetryInit /\ [][MonitorNext]_vars /\ MonitorFairness

\* ------------------------------- the monitor's security check, steps
\* The security loop of a started monitor beside the calls of the retry
\* wrapper: the steps of the integrator, the start of the monitor, and the
\* stretches of its security loop.
_security_monitoring_loop == monitoring_loop("security")

SecurityNext ==
    \/ RetryNext
    \/ start_monitoring
    \/ _security_monitoring_loop

SecuritySpec == RetryInit /\ [][SecurityNext]_vars

\* ------------------------------------------------------------ properties
Range(s) == {s[i] : i \in DOMAIN s}

IsPrefix(s, t) == Len(s) <= Len(t) /\ \A i \in DOMAIN s : s[i] = t[i]

Rank(phase) == CHOOSE i \in DOMAIN WorkflowPhase : WorkflowPhase[i] = phase

N8NRouted(w) == DictGet(w.metadata, "n8n_workflow_id") # NONE

\* C1: current_phase only advances in the order initialization,
\* agent_selection, task_execution, result_processing, completion: the
\* phases a workflow has been given are the first phases of that list, in
\* order, the phase never goes back, and a completed workflow has been given
\* all five.
C1_PhaseOrder ==
    /\ [](\A id \in WorkflowIds :
            /\ IsPrefix(wf[id].phase_log, WorkflowPhase)
            /\ wf[id].phase_log # <<>> =>
                  wf[id].current_phase = wf[id].phase_log[Len(wf[id].phase_log)]
            /\ wf[id].status = "completed" => wf[id].phase_log = WorkflowPhase)
    /\ [][\A id \in WorkflowIds :
            Rank(wf'[id].current_phase) >= Rank(wf[id].current_phase)]_vars

C1_Witness ==
    \E id \in WorkflowIds :
        /\ wf[id].status = "completed"
        /\ wf[id].current_phase = "completion"
        /\ wf[id].created # <<>>

\* C2: once a workflow is completed, failed or cancelled, no field of it
\* changes in any later step.
C2_TerminalImmutable ==
    [][\A id \in WorkflowIds :
          wf[id].status \in TerminalWorkflow => Fields(wf'[id]) = Fields(wf[id])]_vars

\* C3: a workflow routed to an external flow whose execution has ended
\* (without being cancelled) is completed if the client returned the status
\* completed; otherwise it is failed and was never given the phases
\* result_processing and completion.
C3_N8NStatusMatches ==
    \A id \in WorkflowIds :
        (N8NRouted(wf[id]) /\ pc[id] = "done" /\ wf[id].status # "cancelled") =>
            IF /\ "n8n_execution" \in DOMAIN wf[id].results
               /\ wf[id].results["n8n_execution"].status = "completed"
            THEN wf[id].status = "completed"
            ELSE /\ wf[id].status = "failed"
                 /\ "result_processing" \notin Range(wf[id].phase_log)
                 /\ "completion" \notin Range(wf[id].phase_log)

\* C4: when an agent-route workflow is completed, its results hold, for every
\* task it created that is completed, the task's result under the task's id,
\* and nothing for its failed and cancelled tasks.
C4_ResultsCollected ==
    \A id \in WorkflowIds :
        (~N8NRouted(wf[id]) /\ wf[id].status = "completed") =>
            \A task_id \in Range(wf[id].created) :
                IF queue[task_id].status = "completed"
                THEN /\ task_id \in DOMAIN wf[id].results
                     /\ wf[id].results[task_id] = queue[task_id].result
                ELSE task_id \notin DOMAIN wf[id].results

\* C5: cancel_workflow on a running workflow returns True, and when it has
\* returned True the workflow is cancelled with completed_at set and every
\* task the workflow enqueued is terminal; no step changes the status of a
\* task that is completed or failed.
C5_CancelCascades ==
    /\ [](\A id \in WorkflowIds :
            returned = Return("cancel_workflow", id, "True") =>
                /\ wf[id].status = "cancelled"
                /\ wf[id].completed_at # 0
                /\ \A task_id \in Range(wf[id].created) :
                      queue[task_id].status \in TerminalTask)
    /\ [][/\ \A id \in WorkflowIds :
                (/\ cancel_pc = Idle
                 /\ id \in workflows
                 /\ wf[id].status = "running"
                 /\ returned'.op = "cancel_workflow"
                 /\ returned'.id = id) => returned'.result = "True"
          /\ \A task_id \in DOMAIN queue :
                queue[task_id].status \in {"completed", "failed"} =>
                    queue'[task_id].status = queue[task_id].status]_vars

C5_Witness ==
    \E id \in WorkflowIds :
        /\ returned = Return("cancel_workflow", id, "True")
        /\ \E t1, t2 \in Range(wf[id].created) :
              /\ queue[t1].status = "completed"
              /\ queue[t2].status = "cancelled"

\* C6: completed_at is written exactly once in the life of a workflow.
C6_CompletedAtOnce ==
    \A id \in WorkflowIds : wf[id].completed_at_writes <= 1

\* C7: cancel_workflow on a workflow that is completed, failed or cancelled
\* returns False and changes neither a workflow nor a task; after a cancel
\* that returned True the workflow is cancelled, so the next one returns
\* False.
C7_CancelTerminalNoOp ==
    [][\A id \in WorkflowIds :
          (/\ cancel_pc = Idle
           /\ wf[id].status \in TerminalWorkflow
           /\ returned'.op = "cancel_workflow"
           /\ returned'.id = id) =>
              /\ returned'.result = "False"
              /\ wf' = wf
              /\ queue' = queue
              /\ must_cancel' = must_cancel]_vars

C7_Witness ==
    \E id \in WorkflowIds :
        /\ returned = Return("cancel_workflow", id, "False")
        /\ wf[id].status = "cancelled"
        /\ wf[id].created # <<>>

\* C8: once shutdown() has been called the flag stays set, and every
\* start_workflow is rejected with an error and leaves the table, the running
\* set and the workflow's status and started_at as they were.
C8_StartRejected ==
    [][/\ _shutdown => _shutdown'
       /\ \A id \in WorkflowIds :
            (_shutdown /\ returned'.op = "start_workflow" /\ returned'.id = id) =>
                /\ returned'.result = "RuntimeError"
                /\ workflows' = workflows
                /\ running_workflows' = running_workflows
                /\ wf'[id].status = wf[id].status
                /\ wf'[id].started_at = wf[id].started_at
                /\ pc' = pc]_vars

C8_Witness ==
    \E id \in WorkflowIds :
        /\ returned = Return("start_workflow", id, "RuntimeError")
        /\ wf[id].status = "pending"
        /\ id \notin workflows

\* C9: when shutdown() returns, no workflow in the table is running and
\* running_workflows is empty.
C9_ShutdownLeavesNoneRunning ==
    returned.op = "shutdown" =>
        /\ running_workflows = {}
        /\ \A id \in workflows : wf[id].status # "running"

\* A workflow in task execution for which no executor exists: routed to a
\* human, or on the agent route with no agent selected.
NoExecutor(id) ==
    /\ wf[id].status = "running"
    /\ "task_execution" \in Range(wf[id].phase_log)
    /\ ~N8NRouted(wf[id])
    /\ wf[id].assigned_agents = <<>>

\* C10: a workflow for which no executor exists eventually ends failed with
\* the reason "no executor available", unless a caller cancels it or the
\* queue fails first: it does not stay running forever.
C10_NoExecutorFails ==
    \A id \in Ids(MaxWorkflows) :
        NoExecutor(id) ~>
            \/ wf[id].status = "failed" /\ wf[id].error = "no executor available"
            \/ wf[id].status = "cancelled"
            \/ wf[id].status = "failed" /\ wf[id].error = "queue error"

\* C11: a completed workflow has every task it enqueued in a terminal state.
C11_CompletedTasksTerminal ==
    \A id \in WorkflowIds :
        wf[id].status = "completed" =>
            \A task_id \in Range(wf[id].created) :
                /\ Known(queue, task_id)
                /\ queue[task_id].status \in TerminalTask

C11_Witness ==
    \E id \in WorkflowIds :
        /\ wf[id].status = "completed"
        /\ Len(wf[id].created) = 3
        /\ \A task_id \in Range(wf[id].created) : queue[task_id].status = "completed"

\* An agent-route workflow, still running, whose tasks are all enqueued and
\* all terminal.
AgentRouteSettled(id) ==
    /\ ~N8NRouted(wf[id])
    /\ wf[id].status = "running"
    /\ pc[id] = "monitor_sleep"
    /\ \A task_id \in Range(wf[id].created) : queue[task_id].status \in TerminalTask

\* C12: an agent-route workflow whose tasks have all reached a terminal state
\* eventually is completed, unless it is cancelled; and an agent-route
\* workflow is failed only by an exception of the queue, never by a failed
\* task.
C12_SettledCompletes ==
    /\ \A id \in Ids(MaxWorkflows) :
          AgentRouteSettled(id) ~> wf[id].status \in {"completed", "cancelled"}
    /\ [](\A id \in WorkflowIds :
            (~N8NRouted(wf[id]) /\ wf[id].status = "failed") =>
                wf[id].error = "queue error")

C12_Witness ==
    \E id \in WorkflowIds :
        /\ ~N8NRouted(wf[id])
        /\ wf[id].status = "completed"
        /\ \E task_id \in Range(wf[id].created) : queue[task_id].status = "failed"

\* C13: with n >= 1 assigned agents, the i-th task a workflow created
\* (0-based) is assigned to assigned_agents[i mod n].
C13_RoundRobin ==
    \A id \in WorkflowIds :
        LET agents == wf[id].assigned_agents
            n == Len(agents)
        IN  n >= 1 =>
                \A i \in DOMAIN wf[id].created :
                    queue[wf[id].created[i]].assigned_agent = agents[((i - 1) % n) + 1]

SelectionWait == {"init_sleep", "memory_wait", "decision_wait"}

\* The agents that are active and have a capability the workflow type requires.
Eligible(reg, workflow_type) ==
    {a \in DOMAIN reg :
        /\ reg[a].status = "active"
        /\ reg[a].capabilities \cap Range(_get_required_capabilities(workflow_type)) # {}}

NoDuplicates(s) == \A i, j \in DOMAIN s : s[i] = s[j] => i = j

\* C14: when the decision layer raises during agent selection (the selection
\* ends without a decision recorded), the workflow is still running, is in
\* task_execution, and assigned_agents is the duplicate-free list of the
\* active agents that have a required capability.
C14_FallbackSelection ==
    [][\A id \in WorkflowIds :
          (/\ decision_engine
           /\ pc[id] \in SelectionWait
           /\ ~must_cancel[id]
           /\ pc'[id] \notin SelectionWait
           /\ "decision_reasoning" \notin DOMAIN wf'[id].metadata) =>
              /\ wf'[id].status = "running"
              /\ wf'[id].current_phase = "task_execution"
              /\ NoDuplicates(wf'[id].assigned_agents)
              /\ Range(wf'[id].assigned_agents) =
                    Eligible(registry, wf[id].workflow_type)]_vars

C14_Witness ==
    \E id \in WorkflowIds :
        /\ decision_engine
        /\ pc[id] = "enqueue"
        /\ "decision_reasoning" \notin DOMAIN wf[id].metadata
        /\ wf[id].workflow_type = "business_analysis"
        /\ wf[id].assigned_agents = <<"a1", "a2">>

\* -------------------------------------------- properties of the integrator
\* A step in which call c invokes the guarded function.
Invokes(c) == calls[c].pc # "in_func" /\ calls'[c].pc = "in_func"

\* A step in which the retry wrapper records a success, or a failure.
RecordsSuccess ==
    /\ metrics'.request_count = metrics.request_count + 1
    /\ metrics'.error_count = metrics.error_count

RecordsFailure == metrics'.error_count = metrics.error_count + 1

\* C15: counting the failures recorded since the last success (or since
\* construction), the breaker is CLOSED while they are fewer than
\* failure_threshold; the failure that makes them failure_threshold leaves it
\* OPEN with last_failure_time stamped with the time of that failure, and
\* from then on it is OPEN or HALF_OPEN with last_failure_time set.
C15_OpensAtThreshold ==
    /\ [](LET cb == circuit_breaker
          IN  /\ cb.streak < cb.failure_threshold => cb.state = "CLOSED"
              /\ cb.streak >= cb.failure_threshold =>
                    /\ cb.state \in {"OPEN", "HALF_OPEN"}
                    /\ cb.last_failure_time # <<>>)
    /\ [][(/\ circuit_breaker'.streak = circuit_breaker.streak + 1
           /\ circuit_breaker'.streak = circuit_breaker.failure_threshold) =>
              /\ circuit_breaker'.state = "OPEN"
              /\ circuit_breaker'.last_failure_time = <<now>>]_vars

C15_Witness ==
    /\ circuit_breaker.failure_threshold = 2
    /\ circuit_breaker.streak = 2
    /\ circuit_breaker.failure_count = 2
    /\ circuit_breaker.state = "OPEN"
    /\ circuit_breaker.last_failure_time # <<>>

\* C16: while the breaker is OPEN and less than recovery_timeout has elapsed
\* since last_failure_time, no call invokes the guarded function, neither a
\* new call nor a retry of a call admitted earlier; once recovery_timeout has
\* elapsed, a call that is made is admitted.
C16_OpenBlocksInvocation ==
    [][LET cb == circuit_breaker
           open == cb.state = "OPEN"
       IN  /\ (open /\ now - cb.last_failure_time[1] < cb.recovery_timeout) =>
                  \A c \in Calls : ~Invokes(c)
           /\ (open /\ now - cb.last_failure_time[1] >= cb.recovery_timeout) =>
                  \A c \in Calls :
                      (calls[c].pc \in Ended /\ calls'[c] # calls[c]) =>
                          calls'[c].pc = "in_func"]_vars

\* The calls admitted with the breaker HALF_OPEN whose first attempt has not
\* yet recorded its success or failure.
ProbesInFlight ==
    {c \in Calls : calls[c].probe /\ calls[c].pc = "in_func" /\ calls[c].attempt = 0}

\* C17: while the breaker is HALF_OPEN, at most one probe call is admitted
\* and has not yet recorded its outcome.
C17_OneProbe ==
    circuit_breaker.state = "HALF_OPEN" => Cardinality(ProbesInFlight) <= 1

\* C18: with the breaker HALF_OPEN, a recorded success leaves it CLOSED with
\* failure_count 0, and a recorded failure leaves it OPEN with
\* last_failure_time the time of that failure, whatever failure_threshold is.
C18_HalfOpenOutcome ==
    [][circuit_breaker.state = "HALF_OPEN" =>
          /\ RecordsSuccess =>
                /\ circuit_breaker'.state = "CLOSED"
                /\ circuit_breaker'.failure_count = 0
          /\ RecordsFailure =>
                /\ circuit_breaker'.state = "OPEN"
                /\ circuit_breaker'.last_failure_time = <<now>>]_vars

C18_Witness ==
    \E c \in Calls :
        /\ calls[c].probe
        /\ calls[c].pc = "sleeping"
        /\ calls[c].attempt = 0
        /\ circuit_breaker.state = "OPEN"
        /\ circuit_breaker.last_failure_time = <<now>>
        /\ circuit_breaker.failure_count > circuit_breaker.failure_threshold

\* C19: a call that the breaker rejects raises at once: the breaker was OPEN,
\* the guarded function is not invoked, nothing is slept, no time passes, and
\* the breaker and the request and error counters are unchanged.
C19_RejectedAtOnce ==
    [][\A c \in Calls :
          (calls'[c] # calls[c] /\ calls'[c].pc = "rejected") =>
              /\ circuit_breaker.state = "OPEN"
              /\ calls'[c].invoked = 0
              /\ calls'[c].slept = 0
              /\ now' = now
              /\ circuit_breaker' = circuit_breaker
              /\ metrics' = metrics]_vars

C19_Witness ==
    \E c \in Calls :
        /\ calls[c].pc = "rejected"
        /\ circuit_breaker.state = "OPEN"
        /\ metrics.error_count >= circuit_breaker.failure_threshold

\* retry_delay*2^0 + ... + retry_delay*2^(failed-1).
RECURSIVE TotalDelay(_)
TotalDelay(failed) ==
    IF failed = 0 THEN 0
    ELSE TotalDelay(failed - 1) + retry_delay * (2 ^ (failed - 1))

\* C20: a call in its attempt k (1-based; attempt = k - 1), and so a call
\* that succeeds on attempt k, has slept retry_delay*2^0 + ... +
\* retry_delay*2^(k-2) in total; a call asleep after its attempt k has slept
\* retry_delay*2^(k-1) more.
C20_BackoffTotal ==
    \A c \in Calls :
        /\ calls[c].pc \in {"in_func", "returned", "raised"} =>
              calls[c].slept = TotalDelay(calls[c].attempt)
        /\ calls[c].pc = "sleeping" =>
              calls[c].slept = TotalDelay(calls[c].attempt + 1)

C20_Witness ==
    \E c \in Calls :
        /\ calls[c].pc = "returned"
        /\ calls[c].attempt = 2
        /\ calls[c].slept = retry_delay + retry_delay * 2

\* C21: an admitted call has invoked the guarded function at least once and
\* at most retry_attempts times; an invocation that succeeds ends the call
\* with a normal return, one that fails is followed by a sleep unless it was
\* invocation number retry_attempts, which makes the call raise without a
\* further sleep; a call returns normally only in a step that records a
\* success.
C21_RetryBounded ==
    /\ [](\A c \in Calls :
             /\ calls[c].pc \in {"in_func", "sleeping", "returned", "raised"} =>
                   /\ calls[c].invoked = calls[c].attempt + 1
                   /\ 1 <= calls[c].invoked
                   /\ calls[c].invoked <= retry_attempts
             /\ calls[c].pc = "raised" => calls[c].invoked = retry_attempts)
    /\ [][\A c \in Calls :
             (calls[c].pc = "in_func" /\ calls'[c] # calls[c]) =>
                 /\ RecordsSuccess => calls'[c].pc = "returned"
                 /\ RecordsFailure =>
                       IF calls[c].invoked = retry_attempts
                       THEN /\ calls'[c].pc = "raised"
                            /\ calls'[c].slept = calls[c].slept
                       ELSE calls'[c].pc = "sleeping"
                 /\ calls'[c].pc = "returned" => RecordsSuccess
                 /\ calls'[c].invoked = calls[c].invoked]_vars

C21_Witness ==
    \E c \in Calls :
        /\ calls[c].pc = "raised"
        /\ calls[c].invoked = retry_attempts
        /\ calls[c].slept = TotalDelay(retry_attempts - 1)
        /\ metrics.error_count >= retry_attempts

\* C22: a step of the retry wrapper that records a failed attempt raises
\* the breaker's failure_count by exactly one; a step that records a
\* successful attempt leaves failure_count 0 and the breaker CLOSED.
C22_AttemptsRecorded ==
    [][/\ RecordsFailure =>
             circuit_breaker'.failure_count = circuit_breaker.failure_count + 1
       /\ RecordsSuccess =>
             /\ circuit_breaker'.failure_count = 0
             /\ circuit_breaker'.state = "CLOSED"]_vars

C22_Witness ==
    \E c \in Calls :
        /\ calls[c].pc = "returned"
        /\ calls[c].attempt >= 1
        /\ metrics.error_count >= 1
        /\ circuit_breaker.failure_count = 0
        /\ circuit_breaker.state = "CLOSED"

\* The requests a log shows admitted in the window that ends at time t,
\* among its first n entries.
AdmittedInWindow(log, n, t) ==
    {i \in 1..n : log[i].admitted /\ t - log[i].at < ApiRateLimit}

\* C23: for every key, at every moment the requests admitted within the last
\* api_rate_limit seconds are at most api_rate_limit, and each check was
\* rejected exactly when the requests admitted before it within the window
\* ending at the check were already api_rate_limit or more.
C23_WindowBounded ==
    \A key \in Keys :
        LET log == rate_log[key]
        IN  /\ Cardinality(AdmittedInWindow(log, Len(log), now)) <= ApiRateLimit
            /\ \A i \in 1..Len(log) :
                  ~log[i].admitted <=>
                      Cardinality(AdmittedInWindow(log, i - 1, log[i].at)) >= ApiRateLimit

C23_Witness ==
    \E key \in Keys :
        LET log == rate_log[key]
        IN  /\ Len(log) = MaxChecks
            /\ ~log[ApiRateLimit + 1].admitted
            /\ log[MaxChecks].admitted
            /\ Cardinality(AdmittedInWindow(log, Len(log), now)) = ApiRateLimit

\* C24: on each key the admitted checks form a prefix of the checks made:
\* no check is admitted after a rejected one.
C24_AdmittedPrefix ==
    \A key \in Keys :
        \A i, j \in 1..Len(rate_log[key]) :
            (i < j /\ ~rate_log[key][i].admitted) => ~rate_log[key][j].admitted

\* C25: once the shutdown event is set, the next step of a loop (the end of
\* the sleep it is in, or its first step) ends the loop, so that no loop
\* starts another sleep; when start_monitoring has returned, the four loops
\* have finished and monitoring_active is false; and once the event is set
\* while start_monitoring is awaiting the loops, start_monitoring returns.
C25_MonitorStops ==
    /\ [](monitor_pc = "returned" =>
             /\ ~monitoring_active
             /\ \A l \in Loops : loops[l] = "done")
    /\ [][\A l \in Loops :
             (shutdown_event /\ loops[l] # "none" /\ loops'[l] # loops[l]) =>
                 loops'[l] = "done"]_vars
    /\ ((shutdown_event /\ monitor_pc = "gather") ~>
            (monitor_pc = "returned" /\ ~monitoring_active))

C25_Witness ==
    /\ shutdown_event
    /\ monitor_pc = "gather"
    /\ \E l \in Loops : loops[l] = "done"
    /\ \E l \in Loops : loops[l] = "sleeping"
    /\ \E l \in Loops : loops[l] = "retry_sleeping"

\* ------------------------------------------- properties of the engine, II
\* C26: when start_workflow has returned the workflow id, the workflow is in
\* the table, RUNNING, with started_at set, and no step of its pipeline has
\* run: its execution task is created and has not run, and no phase has been
\* assigned.
C26_StartReturnsFirst ==
    \A id \in WorkflowIds :
        returned = Return("start_workflow", id, id) =>
            /\ id \in workflows
            /\ id \in running_workflows
            /\ wf[id].status = "running"
            /\ wf[id].started_at # 0
            /\ pc[id] = "created"
            /\ wf[id].phase_log = <<>>

C26_Witness ==
    \E id \in WorkflowIds :
        /\ returned = Return("start_workflow", id, id)
        /\ wf[id].status = "running"
        /\ ~_shutdown

\* A step made on the side of a caller of the engine's API (not a stretch of
\* an execution task).
CallerStep ==
    \/ returned' # NoReturn
    \/ cancel_pc' # cancel_pc
    \/ shutdown_pc' # shutdown_pc

\* C27: the fields of a started workflow change only in steps of its own
\* execution task, never in a step of cancel_workflow or another caller-side
\* operation.
C27_OwnTaskWritesOnly ==
    [][\A id \in WorkflowIds :
          (id \in workflows /\ Fields(wf'[id]) # Fields(wf[id])) => ~CallerStep]_vars

\* C28: when cancel_workflow has returned True for an agent-route workflow,
\* its results hold the result of every task of it that is completed, under
\* the task's id, and its other tasks are cancelled (or had failed).
C28_CancelKeepsResults ==
    \A id \in WorkflowIds :
        (returned = Return("cancel_workflow", id, "True") /\ ~N8NRouted(wf[id])) =>
            \A task_id \in Range(wf[id].created) :
                IF queue[task_id].status = "completed"
                THEN /\ task_id \in DOMAIN wf[id].results
                     /\ wf[id].results[task_id] = queue[task_id].result
                ELSE queue[task_id].status \in {"cancelled", "failed"}

\* C29: when shutdown() has returned, no task enqueued by a workflow that
\* shutdown cancelled is pending, assigned or running.
C29_ShutdownCascades ==
    returned.op = "shutdown" =>
        \A id \in gather_set :
            wf[id].status = "cancelled" =>
                \A task_id \in Range(wf[id].created) :
                    queue[task_id].status \in TerminalTask

CreatedTypes(w) == [i \in DOMAIN w.created |-> queue[w.created[i]].type]

\* C31: when an agent-route workflow has enqueued its tasks, their types in
\* creation order are the template of its workflow_type: the listed chains
\* for site_recreation and business_analysis, a chain of several tasks for
\* content_creation, research_processing and automation, and the single
\* task execute_workflow for every other type.
C31_TaskTemplates ==
    \A id \in WorkflowIds :
        LET w == wf[id]
            types == CreatedTypes(w)
        IN  (~N8NRouted(w) /\ (pc[id] = "monitor_sleep" \/ w.status = "completed")) =>
                CASE w.workflow_type = "site_recreation" ->
                        types = <<"analyze_site", "design_interface",
                                  "generate_code", "test_quality">>
                  [] w.workflow_type = "business_analysis" ->
                        types = <<"analyze_portfolio", "financial_analysis",
                                  "generate_report">>
                  [] w.workflow_type \in {"content_creation", "research_processing",
                                          "automation"} ->
                        Len(types) >= 2
                  [] OTHER -> types = <<"execute_workflow">>

\* C32: workflow.tasks is the list of all the task ids the workflow created,
\* in creation order; in particular a completed workflow still lists them.
C32_TasksKept ==
    \A id \in WorkflowIds : wf[id].tasks = wf[id].created

\* The score the heuristic is to give: base by type, size bonus, priority
\* bonus, capped at 10.
ComplexityBase(workflow_type) ==
    CASE workflow_type = "simple" -> 2
      [] workflow_type = "data_processing" -> 4
      [] workflow_type = "automation" -> 5
      [] workflow_type = "integration" -> 6
      [] workflow_type = "complex" -> 8
      [] workflow_type = "critical" -> 10
      [] OTHER -> 3

SizeBonus(payload_size) ==
    IF payload_size > 10000 THEN 2 ELSE IF payload_size > 1000 THEN 1 ELSE 0

PriorityBonus(priority) ==
    IF priority = "HIGH" THEN 1 ELSE IF priority = "CRITICAL" THEN 2 ELSE 0

\* C33: the complexity score of a workflow is min(10, base + size bonus +
\* priority bonus) and lies between 1 and 10.
C33_ComplexityScore ==
    assessment.complexity # <<>> =>
        LET score == assessment.complexity[1]
        IN  /\ score = Min(10, ComplexityBase(assessment.workflow_type)
                                 + SizeBonus(assessment.payload_size)
                                 + PriorityBonus(assessment.priority))
            /\ score >= 1
            /\ score <= 10

C33_Witness ==
    /\ assessment.workflow_type = "complex"
    /\ assessment.payload_size = 10001
    /\ assessment.priority = "CRITICAL"
    /\ assessment.complexity = <<10>>

\* The exceptions a phase of the modelled pipeline raises out of
\* _execute_workflow.
PhaseErrors == {"queue error"}

C38_FinishedNotRunning ==
    \A id \in WorkflowIds : pc[id] = "done" => id \notin running_workflows

\* ----------------------------------------- properties of the integrator, II
\* C34: the breaker leaves OPEN only for HALF_OPEN: no step takes it from
\* OPEN to CLOSED, and a success recorded while it is OPEN leaves its state
\* and its failure_count as they are.
C34_OpenNeverCloses ==
    [][circuit_breaker.state = "OPEN" =>
          /\ circuit_breaker'.state \in {"OPEN", "HALF_OPEN"}
          /\ RecordsSuccess =>
                /\ circuit_breaker'.state = "OPEN"
                /\ circuit_breaker'.failure_count = circuit_breaker.failure_count]_vars

\* C35: the breaker is CLOSED exactly when failure_count is below
\* failure_threshold; when it is OPEN or HALF_OPEN, failure_count is at least
\* failure_threshold and last_failure_time is set.
C35_StateMatchesCount ==
    LET cb == circuit_breaker
    IN  /\ cb.state = "CLOSED" <=> cb.failure_count < cb.failure_threshold
        /\ cb.state \in {"OPEN", "HALF_OPEN"} =>
              /\ cb.failure_count >= cb.failure_threshold
              /\ cb.last_failure_time # <<>>

C35_Witness ==
    /\ circuit_breaker.state = "HALF_OPEN"
    /\ circuit_breaker.failure_threshold = 2
    /\ circuit_breaker.failure_count > circuit_breaker.failure_threshold
    /\ \E c \in Calls : calls[c].pc = "in_func" /\ calls[c].probe

\* A step in which the security loop ran its check.
SecurityCheckRuns ==
    /\ loops["security"] \in {"created", "sleeping", "retry_sleeping"}
    /\ loops'["security"] = "sleeping"
    /\ calls' = calls
    /\ now' = now

\* C36: a run of the monitor's security check leaves the breaker's state,
\* failure_count and last_failure_time unchanged.
C36_SecurityCheckObserves ==
    [][SecurityCheckRuns =>
          /\ circuit_breaker'.state = circuit_breaker.state
          /\ circuit_breaker'.failure_count = circuit_breaker.failure_count
          /\ circuit_breaker'.last_failure_time = circuit_breaker.last_failure_time]_vars

\* The window of a key: its list in rate_limiter, empty if it has none.
Window(limiter_dict, key) ==
    IF key \in DOMAIN limiter_dict THEN limiter_dict[key] ELSE <<>>

\* The timestamps of a list that have not aged out at time t.
Fresh(timestamps, t) ==
    SelectSeq(timestamps, LAMBDA timestamp : t - timestamp < ApiRateLimit)

\* C39: a rate-limit check on one key leaves the window of every other key
\* as it is, and a rejected check leaves in its own window exactly the
\* timestamps that had not aged out, adding none.
C39_CheckFrame ==
    [][\A key \in Keys :
          Len(rate_log'[key]) = Len(rate_log[key]) + 1 =>
              /\ \A other \in Keys \ {key} :
                    /\ Window(rate_limiter', other) = Window(rate_limiter, other)
                    /\ rate_log'[other] = rate_log[other]
              /\ ~rate_log'[key][Len(rate_log'[key])].admitted =>
                    Window(rate_limiter', key) = Fresh(Window(rate_limiter, key), now)]_vars

C39_Witness ==
    \E key \in Keys :
        \E other \in Keys \ {key} :
            /\ Len(rate_log[key]) >= 1
            /\ ~rate_log[key][Len(rate_log[key])].admitted
            /\ Len(Window(rate_limiter, key)) = ApiRateLimit
            /\ Len(Window(rate_limiter, other)) = 1

====
